---- MODULE Spec2Model ----
(***************************************************************************)
(* The mapping lifecycle manager of the URL shortener                      *)
(* (Frontend Test Submission/src/services/urlService.ts, class UrlService) *)
(* over the browser's localStorage and wall clock.                         *)
(*                                                                         *)
(* Strings are sequences of one-character strings, so that the format      *)
(* checks are computed character by character.  An optional value          *)
(* (undefined / null / a missing storage key) is a sequence of length 0,   *)
(* a present one a sequence of length 1.  A Date object is [time |-> ms],  *)
(* the ISO-8601 text JSON.stringify writes for it is [iso |-> ms].         *)
(*                                                                         *)
(* Spec is the manager under a caller that awaits each call, with working  *)
(* storage and logging.  AsyncSpec adds the logging sink (Logging          *)
(* Middleware/src/logger.ts) with its requests in flight, answered in any  *)
(* way or never, and a storage whose reads and writes may throw.           *)
(***************************************************************************)
EXTENDS Integers, Sequences, FiniteSets, TLC

(* ------------------------------ bounds -------------------------------- *)

\* Largest weight of a state: the clock advances made so far, plus the
\* records stored, plus their access counts.  Every step that grows one of
\* the three is guarded by it.
MaxWeight == 4

(* ------------------------- program constants -------------------------- *)

\* const chars = 'abc...XYZ0123456789'
chars ==
    << "a","b","c","d","e","f","g","h","i","j","k","l","m",
       "n","o","p","q","r","s","t","u","v","w","x","y","z",
       "A","B","C","D","E","F","G","H","I","J","K","L","M",
       "N","O","P","Q","R","S","T","U","V","W","X","Y","Z",
       "0","1","2","3","4","5","6","7","8","9" >>

\* for (let i = 0; i < 6; i++)
CodeLength == 6

\* request.validityMinutes || 30
DefaultValidityMinutes == 30

\* validityMinutes * 60 * 1000
MsPerMinute == 60 * 1000

\* private static readonly BASE_URL = window.location.origin
\* (the origin the page is served from; here http://h)
BASE_URL == << "h","t","t","p",":","/","/","h" >>

ErrInvalidUrl == "Invalid URL provided"
ErrInvalidCode == "Custom shortcode must be 3-10 alphanumeric characters"
ErrCodeTaken == "Custom shortcode already exists"

(* ------------------------------ inputs -------------------------------- *)

\* "http://e", "m:a" (both parse), "e.co" (no scheme), "http://" (no host)
UrlExample == << "h","t","t","p",":","/","/","e" >>
UrlMailto == << "m",":","a" >>
UrlNoScheme == << "e",".","c","o" >>
UrlNoHost == << "h","t","t","p",":","/","/" >>

CodeAbc == << "a","b","c" >>
CodeGenLike == << "a","a","a","a","a","a" >>
CodeEmpty == << >>
CodeShort == << "a","b" >>
CodeDash == << "a","-","c" >>
CodeLong == << "a","b","c","d","e","f","g","h","i","j","k" >>

\* The outcomes of the six Math.floor(Math.random() * chars.length) draws
\* of one generateShortcode call that the model explores.
RandomRuns == { <<0,0,0,0,0,0>>, <<0,0,0,0,0,61>> }

\* The step by which the wall clock advances between calls, a millisecond
\* short of a minute, and the default validity.
ShortStep == MsPerMinute - 1
LongStep == DefaultValidityMinutes * MsPerMinute
TickSteps == { ShortStep }

\* Time that may pass between two clock reads of one handler (ms).
Drift == 0 .. 1

Some(x) == << x >>
None == << >>

\* The requests create is called with.
Requests ==
    [ originalUrl : { UrlExample },
      customShortcode : { None },
      validityMinutes : { None, Some(0 - 1), Some(0), Some(1) } ]
    \cup
    { [ originalUrl |-> UrlMailto, customShortcode |-> Some(CodeAbc),
        validityMinutes |-> Some(1) ],
      [ originalUrl |-> UrlExample, customShortcode |-> Some(CodeAbc),
        validityMinutes |-> None ] }
    \cup
    [ originalUrl : { UrlExample },
      customShortcode : { Some(CodeEmpty), Some(CodeShort), Some(CodeDash),
                          Some(CodeLong) },
      validityMinutes : { None } ]
    \cup
    [ originalUrl : { UrlNoScheme, UrlNoHost, << >> },
      customShortcode : { None },
      validityMinutes : { None } ]
    \cup
    [ originalUrl : { UrlNoScheme },
      customShortcode : { Some(CodeShort) },
      validityMinutes : { None } ]

(* -------------------------- dates and JSON ---------------------------- *)

\* new Date(ms)
DateOf(ms) == [ time |-> ms ]

\* Date.prototype.toJSON, as JSON.stringify applies it: a Date becomes its
\* ISO text, a value that is already text stays as it is.
toJSON(v) == IF DOMAIN v = { "time" } THEN [ iso |-> v.time ] ELSE v

\* new Date(value): parses ISO text, copies a Date.
NewDate(v) == IF DOMAIN v = { "iso" } THEN [ time |-> v.iso ] ELSE v

\* JSON.stringify(mappings) followed by what JSON.parse gives back.
Stringify(mappings) ==
    [ i \in 1 .. Len(mappings) |->
        [ shortcode |-> mappings[i].shortcode,
          originalUrl |-> mappings[i].originalUrl,
          expiresAt |-> toJSON(mappings[i].expiresAt),
          createdAt |-> toJSON(mappings[i].createdAt),
          accessCount |-> mappings[i].accessCount ] ]

(* ------------------------------- state -------------------------------- *)

VARIABLES
    localStorage,   \* the value under STORAGE_KEY: None, or Some(array)
    clock,          \* the wall clock, ms
    call,           \* the call the caller awaits (Idle if none): its
                    \* arguments, result, clock reads, and the store before
    resolved        \* ghost: successful resolves per stored shortcode
                    \* (kept by the actions of Spec)

vars == << localStorage, clock, call, resolved >>


(* ----------------------- generator and validators --------------------- *)

\* Mutant: the loop of the generator stops a character early.
generateShortcodeFive(draws) ==
    [ i \in 1 .. CodeLength - 1 |-> chars[draws[i] + 1] ]

\* Mutant: the generator does not use its draws.
generateShortcodeStuck(draws) ==
    [ i \in 1 .. CodeLength |-> chars[1] ]

\* generateShortcode, given the six draws Math.floor(Math.random() * 62).
generateShortcode(draws) ==
    [ i \in 1 .. CodeLength |-> chars[draws[i] + 1] ]

Lower ==
    { "a","b","c","d","e","f","g","h","i","j","k","l","m",
      "n","o","p","q","r","s","t","u","v","w","x","y","z" }
Upper ==
    { "A","B","C","D","E","F","G","H","I","J","K","L","M",
      "N","O","P","Q","R","S","T","U","V","W","X","Y","Z" }
Digit == { "0","1","2","3","4","5","6","7","8","9" }

\* Schemes whose URLs need a host (URL Standard, special schemes but file).
HostSchemes ==
    { << "h","t","t","p" >>, << "h","t","t","p","s" >>, << "f","t","p" >>,
      << "w","s" >>, << "w","s","s" >> }

\* Index of the first ":" of url, 0 when there is none.
FirstColon(url) ==
    LET S == { i \in 1 .. Len(url) : url[i] = ":" }
    IN  IF S = {} THEN 0 ELSE CHOOSE i \in S : \A j \in S : i <= j

\* isValidUrl: new URL(url) does not throw.  With no base URL the parser
\* needs a scheme (a letter, then letters, digits, "+", "-", "."), a ":",
\* and, for the schemes that need one, a non-empty host after the slashes.
isValidUrl(url) ==
    LET k == FirstColon(url)
        rest == { i \in k + 1 .. Len(url) : url[i] \notin { "/", "\\" } }
        first == CHOOSE i \in rest : \A j \in rest : i <= j
    IN  /\ k > 1
        /\ url[1] \in Lower \cup Upper
        /\ \A i \in 2 .. k - 1 :
              url[i] \in Lower \cup Upper \cup Digit \cup { "+", "-", "." }
        /\ SubSeq(url, 1, k - 1) \in HostSchemes =>
              /\ rest # {}
              /\ url[first] \notin { "?", "#" }

\* isValidShortcode: /^[a-zA-Z0-9]{3,10}$/.test(shortcode)
isValidShortcode(shortcode) ==
    /\ Len(shortcode) >= 3
    /\ Len(shortcode) <= 10
    /\ \A i \in 1 .. Len(shortcode) : shortcode[i] \in Lower \cup Upper \cup Digit

(* ---------------------------- persistence ----------------------------- *)

\* getStoredMappings: stored ? JSON.parse(stored) : []
getStoredMappings(store) ==
    IF store = None THEN << >> ELSE store[1]

\* saveMappings: localStorage.setItem(STORAGE_KEY, JSON.stringify(mappings));
\* the value the key holds afterwards.
saveMappings(mappings) == Some(Stringify(mappings))

\* Mutant: the comparison of the filter reversed.
IsLiveReversed(mapping, now) == NewDate(mapping.expiresAt).time < now.time

\* Mutant: a record that expires at this very millisecond is kept.
IsLiveInclusive(mapping, now) == NewDate(mapping.expiresAt).time >= now.time

\* mapping => new Date(mapping.expiresAt) > now
IsLive(mapping, now) == NewDate(mapping.expiresAt).time > now.time

\* Mutant: the filtered array is never written back.
cleanExpiredMappingsUnsaved(store, now) == store

\* cleanExpiredMappings: the value the key holds after the sweep read the
\* clock as now.  It writes only when the filter dropped a record.
cleanExpiredMappings(store, now) ==
    LET mappings == getStoredMappings(store)
        Keep(m) == IsLive(m, now)
        validMappings == SelectSeq(mappings, Keep)
    IN  IF Len(validMappings) # Len(mappings)
        THEN saveMappings(validMappings)
        ELSE store

(* --------------------------- handler pieces --------------------------- *)

\* if (shortcode): a custom code was given and is not the empty string.
HasCustomCode(request) ==
    /\ request.customShortcode # None
    /\ request.customShortcode[1] # << >>

\* Mutant: the collision check compares the wrong field.
CodeExistsByUrl(mappings, shortcode) ==
    \E i \in 1 .. Len(mappings) : mappings[i].originalUrl = shortcode

\* mappings.some(mapping => mapping.shortcode === shortcode)
CodeExists(mappings, shortcode) ==
    \E i \in 1 .. Len(mappings) : mappings[i].shortcode = shortcode

\* Mutant: a validity that is not positive is replaced by the default.
ValidityOfGuarded(request) ==
    IF request.validityMinutes # None /\ request.validityMinutes[1] > 0
    THEN request.validityMinutes[1]
    ELSE DefaultValidityMinutes

\* const validityMinutes = request.validityMinutes || 30
ValidityOf(request) ==
    IF request.validityMinutes # None /\ request.validityMinutes[1] # 0
    THEN request.validityMinutes[1]
    ELSE DefaultValidityMinutes

\* new Date(Date.now() + validityMinutes * 60 * 1000)
ExpiryDate(dateNow, validityMinutes) ==
    DateOf(dateNow + validityMinutes * MsPerMinute)

\* const newMapping: UrlMapping = { ... accessCount: 0 }
NewMapping(shortcode, originalUrl, expiresAt, createdAt) ==
    [ shortcode |-> shortcode,
      originalUrl |-> originalUrl,
      expiresAt |-> expiresAt,
      createdAt |-> createdAt,
      accessCount |-> 0 ]

\* The ShortenUrlResponse create returns.
Response(shortcode, originalUrl, expiresAt, createdAt) ==
    [ shortUrl |-> BASE_URL \o << "/" >> \o shortcode,
      shortcode |-> shortcode,
      originalUrl |-> originalUrl,
      expiresAt |-> expiresAt,
      createdAt |-> createdAt ]

\* mappings.find(m => m.shortcode === shortcode): its index, 0 for undefined.
FindIndex(mappings, shortcode) ==
    LET S == { i \in 1 .. Len(mappings) : mappings[i].shortcode = shortcode }
    IN  IF S = {} THEN 0 ELSE CHOOSE i \in S : \A j \in S : i <= j

\* Mutant: the count of the first element is incremented, not the found one's.
IncrementFirst(mappings, i) ==
    [ mappings EXCEPT ![1].accessCount = @ + 1 ]

\* Mutant: the count goes down instead of up.
IncrementDown(mappings, i) ==
    [ mappings EXCEPT ![i].accessCount = @ - 1 ]

\* mapping.accessCount++ on the found element of the parsed array.
Increment(mappings, i) ==
    [ mappings EXCEPT ![i].accessCount = @ + 1 ]

\* Mutant: the filter keeps the matching records instead of the others.
FilterOutInverted(mappings, shortcode) ==
    LET Same(m) == m.shortcode = shortcode
    IN  SelectSeq(mappings, Same)

\* Mutant: the filtered array comes back in reverse order.
FilterOutReversed(mappings, shortcode) ==
    LET Other(m) == m.shortcode # shortcode
        kept == SelectSeq(mappings, Other)
    IN  [ i \in 1 .. Len(kept) |-> kept[Len(kept) + 1 - i] ]

\* mappings.filter(m => m.shortcode !== shortcode)
FilterOut(mappings, shortcode) ==
    LET Other(m) == m.shortcode # shortcode
    IN  SelectSeq(mappings, Other)

(* ------------------------------- ghosts ------------------------------- *)

\* The shortcodes of the records under the key.
CodesIn(store) ==
    { getStoredMappings(store)[i].shortcode :
        i \in 1 .. Len(getStoredMappings(store)) }

\* Successful resolves per stored shortcode after a call that created the
\* code made (None if none) and returned the URL of the code hit (None if none).
Count(store, made, hit) ==
    [ c \in CodesIn(store) |->
        IF made = Some(c) THEN 0
        ELSE (IF c \in DOMAIN resolved THEN resolved[c] ELSE 0)
             + (IF hit = Some(c) THEN 1 ELSE 0) ]

\* Returned values and thrown errors of a call.
Returned(v) == [ kind |-> "return", value |-> v ]
Thrown(msg) == [ kind |-> "throw", message |-> msg ]

\* The shortcode a call created, if it returned one.
Made(op, result) ==
    IF op = "create" /\ result.kind = "return"
    THEN Some(result.value.shortcode) ELSE None

\* The shortcode a call resolved, if it returned a URL.
Hit(op, arg, result) ==
    IF op = "resolve" /\ result # Returned(None) THEN Some(arg) ELSE None

\* Clock advances a behaviour has made when the clock shows t: its long
\* steps, its short steps, and the milliseconds that passed inside calls.
TicksUsed(t) ==
    (t \div LongStep) + ((t % LongStep) \div ShortStep)
    + ((t % LongStep) % ShortStep)

RECURSIVE SumAccess(_)
SumAccess(mappings) ==
    IF mappings = << >> THEN 0
    ELSE Head(mappings).accessCount + SumAccess(Tail(mappings))

\* The weight of the state with the key holding store at time t.
Weight(store, t) ==
    TicksUsed(t) + Len(getStoredMappings(store))
    + SumAccess(getStoredMappings(store))


(* ------------------------------ handlers ------------------------------ *)

\* What a call leaves behind: the value under the key, the clock at its
\* last read, what it returned or threw, the clock values it read, and the
\* number of saveMappings calls it made.
Outcome(store, time, result, reads, writes) ==
    [ store |-> store, clock |-> time, result |-> result, reads |-> reads,
      writes |-> writes ]

\* Number of saveMappings calls of cleanExpiredMappings.
SweepWrites(store, now) ==
    IF getStoredMappings(cleanExpiredMappings(store, now))
       # getStoredMappings(store)
    THEN 1 ELSE 0

\* Mutant: the generated code is taken without the collision loop.
LoopExitsAtOnce(mappings, draws) == TRUE

\* The loop `while (mappings.some(...)) shortcode = this.generateShortcode()`
\* exits with the code of draws.
LoopExits(mappings, draws) ==
    ~CodeExists(mappings, generateShortcode(draws))

\* Mutant: the sweep runs before the URL is validated.
RejectUrlAfterSweep(store, t) ==
    Outcome(cleanExpiredMappings(store, DateOf(t)), t, Thrown(ErrInvalidUrl),
            << t >>, SweepWrites(store, DateOf(t)))

\* if (!this.isValidUrl(request.originalUrl)) { ...; throw new Error(...) }
RejectUrl(store, t) ==
    Outcome(store, t, Thrown(ErrInvalidUrl), << >>, 0)

\* shortenUrl(request) started with the key holding store and the clock at
\* t.  The sweep reads the clock first; d1 and d2 are the milliseconds that
\* pass before Date.now() and before new Date() of the expiry computation;
\* draws are the random draws of the last generateShortcode call.
shortenUrlOutcome(store, t, request, d1, d2, draws) ==
    IF ~isValidUrl(request.originalUrl)
    THEN RejectUrl(store, t)
    ELSE
    LET swept == cleanExpiredMappings(store, DateOf(t))
        sw == SweepWrites(store, DateOf(t))
        mappings == getStoredMappings(swept)
    IN  IF HasCustomCode(request)
           /\ ~isValidShortcode(request.customShortcode[1])
        THEN Outcome(swept, t, Thrown(ErrInvalidCode), << t >>, sw)
        ELSE
        IF HasCustomCode(request)
           /\ CodeExists(mappings, request.customShortcode[1])
        THEN Outcome(swept, t, Thrown(ErrCodeTaken), << t >>, sw)
        ELSE
        LET shortcode == IF HasCustomCode(request)
                         THEN request.customShortcode[1]
                         ELSE generateShortcode(draws)
            dateNow == t + d1
            expiresAt == ExpiryDate(dateNow, ValidityOf(request))
            createdAt == DateOf(dateNow + d2)
            newMapping == NewMapping(shortcode, request.originalUrl,
                                     expiresAt, createdAt)
        IN  Outcome(saveMappings(Append(mappings, newMapping)),
                    dateNow + d2,
                    Returned(Response(shortcode, request.originalUrl,
                                      expiresAt, createdAt)),
                    << t, dateNow, dateNow + d2 >>, sw + 1)

\* The call reaches its outcome o with these draws and delays (the delays
\* and draws of statements it does not reach are fixed).
shortenUrlReaches(o, store, t, request, d1, d2, draws) ==
    IF o.result.kind = "throw"
    THEN d1 = 0 /\ d2 = 0 /\ draws = <<0,0,0,0,0,0>>
    ELSE IF HasCustomCode(request)
         THEN draws = <<0,0,0,0,0,0>>
         ELSE LoopExits(getStoredMappings(cleanExpiredMappings(store, DateOf(t))),
                        draws)

\* resolveShortcode(shortcode) started with the key holding store and the
\* clock at t; d is the time between the sweep's clock read and the
\* new Date() of the expiry check.
resolveShortcodeOutcome(store, t, shortcode, d) ==
    LET swept == cleanExpiredMappings(store, DateOf(t))
        sw == SweepWrites(store, DateOf(t))
        mappings == getStoredMappings(swept)
        i == FindIndex(mappings, shortcode)
    IN  IF i = 0
        THEN Outcome(swept, t, Returned(None), << t >>, sw)
        ELSE
        IF NewDate(mappings[i].expiresAt).time <= DateOf(t + d).time
        THEN Outcome(swept, t + d, Returned(None), << t, t + d >>, sw)
        ELSE Outcome(saveMappings(Increment(mappings, i)), t + d,
                     Returned(Some(mappings[i].originalUrl)),
                     << t, t + d >>, sw + 1)

\* The expiry check's clock read happens only when the code was found.
resolveShortcodeReaches(o, d) ==
    Len(o.reads) = 1 => d = 0

\* Mutant: the array is read before the sweep and returned as read.
getAllMappingsOutcomeStale(store, t) ==
    Outcome(cleanExpiredMappings(store, DateOf(t)), t,
            Returned(getStoredMappings(store)), << t >>,
            SweepWrites(store, DateOf(t)))

\* getAllMappings()
getAllMappingsOutcome(store, t) ==
    LET swept == cleanExpiredMappings(store, DateOf(t))
    IN  Outcome(swept, t, Returned(getStoredMappings(swept)), << t >>,
                SweepWrites(store, DateOf(t)))

\* Mutant: the filtered array is saved before the length check.
DeleteMissSaves(store, t, filteredMappings) ==
    Outcome(saveMappings(filteredMappings), t, Returned(FALSE), << >>, 1)

\* if (filteredMappings.length === initialLength) { ...; return false; }
DeleteMiss(store, t, filteredMappings) ==
    Outcome(store, t, Returned(FALSE), << >>, 0)

\* deleteMappingByShortcode(shortcode); it reads no clock.
deleteMappingByShortcodeOutcome(store, t, shortcode) ==
    LET mappings == getStoredMappings(store)
        initialLength == Len(mappings)
        filteredMappings == FilterOut(mappings, shortcode)
    IN  IF Len(filteredMappings) = initialLength
        THEN DeleteMiss(store, t, filteredMappings)
        ELSE Outcome(saveMappings(filteredMappings), t, Returned(TRUE),
                     << >>, 1)

(* ------------------------------ actions ------------------------------- *)

Idle == [ op |-> "none" ]

Init ==
    /\ localStorage = None
    /\ clock = 0
    /\ call = Idle
    /\ resolved = [ c \in {} |-> 0 ]

\* A call made by the sequential caller runs to its outcome o.
Run(op, arg, o) ==
    /\ Weight(o.store, o.clock) <= MaxWeight
    /\ localStorage' = o.store
    /\ clock' = o.clock
    /\ call' = [ op |-> op, arg |-> arg, result |-> o.result,
                 before |-> localStorage, reads |-> o.reads,
                 writes |-> o.writes ]
    /\ resolved' = Count(o.store, Made(op, o.result), Hit(op, arg, o.result))

shortenUrl(request) ==
    /\ call = Idle
    /\ \E d1 \in Drift, d2 \in Drift, draws \in RandomRuns :
        \E o \in { shortenUrlOutcome(localStorage, clock, request,
                                      d1, d2, draws) } :
            /\ shortenUrlReaches(o, localStorage, clock, request,
                                 d1, d2, draws)
            /\ Run("create", request, o)

resolveShortcode(shortcode) ==
    /\ call = Idle
    /\ \E d \in Drift :
        \E o \in { resolveShortcodeOutcome(localStorage, clock,
                                            shortcode, d) } :
            /\ resolveShortcodeReaches(o, d)
            /\ Run("resolve", shortcode, o)

getAllMappings ==
    /\ call = Idle
    /\ \E o \in { getAllMappingsOutcome(localStorage, clock) } :
        Run("list", None, o)

deleteMappingByShortcode(shortcode) ==
    /\ call = Idle
    /\ \E o \in { deleteMappingByShortcodeOutcome(localStorage, clock,
                                                   shortcode) } :
        Run("delete", shortcode, o)

\* The caller takes the result of the call it awaited.
Settle ==
    /\ call # Idle
    /\ call' = Idle
    /\ UNCHANGED << localStorage, clock, resolved >>

\* The wall clock advances between calls.
Tick(step) ==
    /\ call = Idle
    /\ Weight(localStorage, clock + step) <= MaxWeight
    /\ clock' = clock + step
    /\ UNCHANGED << localStorage, call, resolved >>

\* The shortcodes resolve and delete are called with.
Probes == { CodeAbc, CodeGenLike, << "A","B","C" >> }

Next ==
    \/ \E request \in Requests : shortenUrl(request)
    \/ \E shortcode \in Probes : resolveShortcode(shortcode)
    \/ getAllMappings
    \/ \E shortcode \in Probes : deleteMappingByShortcode(shortcode)
    \/ Settle
    \/ \E step \in TickSteps : Tick(step)

Spec == Init /\ [][Next]_vars


(* ---------------------------- logging sink ---------------------------- *)

\* The LogResponse the endpoint answers with.
LogResponse == [ logID |-> "id", timestamp |-> "ts", status |-> "success" ]

\* What becomes of the POST of one Logger.Log call: the fetch rejects, or a
\* response arrives with a status and a body (None: a body that is not JSON).
Replies ==
    { [ network |-> "error" ] }
    \cup [ network : { "ok" }, status : { 200, 500 },
           body : { None, Some(LogResponse) } ]

\* await fetch(this.API_URL, { ... })
fetch(reply) ==
    IF reply.network = "error"
    THEN Thrown("Failed to fetch")
    ELSE Returned(reply)

\* Mutant: the status of the response is not looked at.
ResponseOkAlways(response) == response.status >= 0

\* response.ok
ResponseOk(response) == response.status \in 200 .. 299

\* await response.json()
json(response) ==
    IF response.body = None
    THEN Thrown("Unexpected token")
    ELSE Returned(response.body[1])

\* The try block of Logger.Log.
LogTry(reply) ==
    LET response == fetch(reply)
    IN  IF response.kind = "throw" THEN response
        ELSE IF ~ResponseOk(response.value) THEN Thrown("HTTP error!")
        ELSE json(response.value)

\* Mutant: no catch around the try block.
LogRethrows(reply) == LogTry(reply)

\* Logger.Log: try { ...; return logResponse } catch (error) { return null }
Log(reply) ==
    IF LogTry(reply).kind = "throw"
    THEN Returned(None)
    ELSE Returned(Some(LogTry(reply).value))

(* ------------------------ storage that may fail ----------------------- *)

\* The storage accesses of a handler: the read and the write of the sweep,
\* and the handler's own read and write.
Sites == { "sweepRead", "sweepWrite", "read", "write" }

\* The sets of sites at which the storage throws during one call.
FaultPlans == SUBSET Sites

StorageErrors == { "SecurityError", "QuotaExceededError" }

\* localStorage.getItem(key) and JSON.parse, one of which may throw.
getItem(store, fails) ==
    IF fails THEN Thrown("SecurityError") ELSE Returned(store)

\* localStorage.setItem(key, value), which may throw; the value under the
\* key afterwards.
setItem(store, value, fails) ==
    IF fails THEN Thrown("QuotaExceededError") ELSE Returned(value)

\* Mutant: no catch around the read.
getStoredMappingsRethrows(store, fails) ==
    LET stored == getItem(store, fails)
    IN  IF stored.kind = "throw" THEN stored
        ELSE Returned(getStoredMappings(stored.value))

\* getStoredMappings: try { ... } catch (error) { ...; return [] }
getStoredMappingsTry(store, fails) ==
    LET stored == getItem(store, fails)
    IN  IF stored.kind = "throw" THEN Returned(<< >>)
        ELSE Returned(getStoredMappings(stored.value))

\* saveMappings: try { setItem } catch (error) { ... }; the value under the
\* key afterwards.
saveMappingsTry(store, mappings, fails) ==
    LET set == setItem(store, saveMappings(mappings), fails)
    IN  IF set.kind = "throw" THEN Returned(store) ELSE set

\* What a piece of a handler leaves: the error it threw (None if none), the
\* value under the key, and the sites at which the storage threw.
Step(thrown, store, faulted) ==
    [ thrown |-> thrown, store |-> store, faulted |-> faulted ]

\* cleanExpiredMappings under the fault plan faults.
cleanExpiredMappingsTry(store, now, faults) ==
    LET read == getStoredMappingsTry(store, "sweepRead" \in faults)
        f1 == { "sweepRead" } \cap faults
    IN  IF read.kind = "throw" THEN Step(Some(read), store, f1)
        ELSE
        LET mappings == read.value
            Keep(m) == IsLive(m, now)
            validMappings == SelectSeq(mappings, Keep)
            saved == saveMappingsTry(store, validMappings,
                                     "sweepWrite" \in faults)
            f2 == f1 \cup ({ "sweepWrite" } \cap faults)
        IN  IF Len(validMappings) = Len(mappings)
            THEN Step(None, store, f1)
            ELSE IF saved.kind = "throw" THEN Step(Some(saved), store, f2)
            ELSE Step(None, saved.value, f2)

\* What a call leaves behind when the storage may fail: the value under
\* the key, what it returned or threw, and the sites at which the storage
\* threw.
Effect(store, result, faulted) ==
    [ store |-> store, result |-> result, faulted |-> faulted ]

\* The array the collision loop of shortenUrl compares with, or the error
\* that kept the handler from reading it.
SeenByCreate(store, t, faults) ==
    LET swept == cleanExpiredMappingsTry(store, DateOf(t), faults)
    IN  IF swept.thrown # None THEN swept.thrown[1]
        ELSE getStoredMappingsTry(swept.store, "read" \in faults)

\* shortenUrl(request) between its first and its last Logger.Log, at clock t.
shortenUrlTry(store, t, request, draws, faults) ==
    IF ~isValidUrl(request.originalUrl)
    THEN Effect(store, Thrown(ErrInvalidUrl), {})
    ELSE
    LET swept == cleanExpiredMappingsTry(store, DateOf(t), faults)
        read == getStoredMappingsTry(swept.store, "read" \in faults)
        f2 == swept.faulted \cup ({ "read" } \cap faults)
    IN  IF swept.thrown # None
        THEN Effect(swept.store, swept.thrown[1], swept.faulted)
        ELSE IF read.kind = "throw" THEN Effect(swept.store, read, f2)
        ELSE
        LET mappings == read.value
        IN  IF HasCustomCode(request)
               /\ ~isValidShortcode(request.customShortcode[1])
            THEN Effect(swept.store, Thrown(ErrInvalidCode), f2)
            ELSE
            IF HasCustomCode(request)
               /\ CodeExists(mappings, request.customShortcode[1])
            THEN Effect(swept.store, Thrown(ErrCodeTaken), f2)
            ELSE
            LET shortcode == IF HasCustomCode(request)
                             THEN request.customShortcode[1]
                             ELSE generateShortcode(draws)
                expiresAt == ExpiryDate(t, ValidityOf(request))
                createdAt == DateOf(t)
                newMapping == NewMapping(shortcode, request.originalUrl,
                                         expiresAt, createdAt)
                saved == saveMappingsTry(swept.store,
                                         Append(mappings, newMapping),
                                         "write" \in faults)
                f3 == f2 \cup ({ "write" } \cap faults)
            IN  IF saved.kind = "throw" THEN Effect(swept.store, saved, f3)
                ELSE Effect(saved.value,
                            Returned(Response(shortcode, request.originalUrl,
                                              expiresAt, createdAt)),
                            f3)

\* resolveShortcode(shortcode) between its first and its last Logger.Log.
resolveShortcodeTry(store, t, shortcode, faults) ==
    LET swept == cleanExpiredMappingsTry(store, DateOf(t), faults)
        read == getStoredMappingsTry(swept.store, "read" \in faults)
        f2 == swept.faulted \cup ({ "read" } \cap faults)
    IN  IF swept.thrown # None
        THEN Effect(swept.store, swept.thrown[1], swept.faulted)
        ELSE IF read.kind = "throw" THEN Effect(swept.store, read, f2)
        ELSE
        LET mappings == read.value
            i == FindIndex(mappings, shortcode)
            saved == saveMappingsTry(swept.store, Increment(mappings, i),
                                     "write" \in faults)
            f3 == f2 \cup ({ "write" } \cap faults)
        IN  IF i = 0 THEN Effect(swept.store, Returned(None), f2)
            ELSE
            IF NewDate(mappings[i].expiresAt).time <= DateOf(t).time
            THEN Effect(swept.store, Returned(None), f2)
            ELSE IF saved.kind = "throw" THEN Effect(swept.store, saved, f3)
            ELSE Effect(saved.value, Returned(Some(mappings[i].originalUrl)),
                        f3)

\* getAllMappings() after its Logger.Log.
getAllMappingsTry(store, t, faults) ==
    LET swept == cleanExpiredMappingsTry(store, DateOf(t), faults)
        read == getStoredMappingsTry(swept.store, "read" \in faults)
        f2 == swept.faulted \cup ({ "read" } \cap faults)
    IN  IF swept.thrown # None
        THEN Effect(swept.store, swept.thrown[1], swept.faulted)
        ELSE IF read.kind = "throw" THEN Effect(swept.store, read, f2)
        ELSE Effect(swept.store, Returned(read.value), f2)

\* deleteMappingByShortcode(shortcode) between its first and its last
\* Logger.Log.
deleteMappingByShortcodeTry(store, shortcode, faults) ==
    LET read == getStoredMappingsTry(store, "read" \in faults)
        f1 == { "read" } \cap faults
    IN  IF read.kind = "throw" THEN Effect(store, read, f1)
        ELSE
        LET mappings == read.value
            initialLength == Len(mappings)
            filteredMappings == FilterOut(mappings, shortcode)
            saved == saveMappingsTry(store, filteredMappings,
                                     "write" \in faults)
            f2 == f1 \cup ({ "write" } \cap faults)
        IN  IF Len(filteredMappings) = initialLength
            THEN Effect(store, Returned(FALSE), f1)
            ELSE IF saved.kind = "throw" THEN Effect(store, saved, f2)
            ELSE Effect(saved.value, Returned(TRUE), f2)

(* ------------- calls with their logging requests in flight ------------ *)

\* A logging request that was sent either gets its reply or never does
\* (fetch is given no timeout).
Fates == { "inFlight", "never" }

\* The requests and the codes the calls of AsyncSpec are made with.
AsyncRequests ==
    { r \in Requests :
        \/ r.originalUrl = UrlExample /\ r.customShortcode = None
              /\ r.validityMinutes \in { None, Some(0 - 1) }
        \/ r.originalUrl = UrlExample
              /\ r.customShortcode \in { Some(CodeAbc), Some(CodeShort) }
        \/ r.originalUrl = UrlNoScheme /\ r.customShortcode = None }

AsyncProbes == { CodeAbc, CodeGenLike }

\* The storage accesses a handler can make.
SitesOf(op) ==
    CASE op = "delete" -> { "read", "write" }
      [] op = "list" -> { "sweepRead", "sweepWrite", "read" }
      [] OTHER -> Sites

\* The handler of op between its first await and its last, at clock t.
Body(op, arg, store, t, draws, faults) ==
    CASE op = "create" -> shortenUrlTry(store, t, arg, draws, faults)
      [] op = "resolve" -> resolveShortcodeTry(store, t, arg, faults)
      [] op = "list" -> getAllMappingsTry(store, t, faults)
      [] op = "delete" -> deleteMappingByShortcodeTry(store, arg, faults)

\* The draws are those of the generateShortcode call the loop ended with
\* (all zero when generateShortcode is not called).
BodyReaches(op, arg, store, t, draws, faults) ==
    IF op = "create" /\ isValidUrl(arg.originalUrl) /\ ~HasCustomCode(arg)
    THEN \A seen \in { SeenByCreate(store, t, faults) } :
            IF seen.kind = "throw" THEN draws = <<0,0,0,0,0,0>>
            ELSE LoopExits(seen.value, draws)
    ELSE draws = <<0,0,0,0,0,0>>

\* Every path of create, resolve and delete awaits a last Logger.Log before
\* it returns or throws; getAllMappings returns what it read at once, and
\* an error thrown by the storage would pass no further statement.
ExitLogged(op, result) ==
    /\ op # "list"
    /\ ~(result.kind = "throw" /\ result.message \in StorageErrors)

\* The call in flight: stage is "entry" while the first Logger.Log is
\* awaited, "exit" while the last one is, "returned" once the caller has the
\* result; fate tells whether the awaited request will be answered; logs
\* are the replies to the Logger.Log calls so far and what Log made of them.
InFlight(op, arg, stage, fate, logs, before, draws, faults, result, faulted) ==
    [ op |-> op, arg |-> arg, stage |-> stage, fate |-> fate,
      logs |-> logs, before |-> before, draws |-> draws, faults |-> faults,
      result |-> result, faulted |-> faulted ]

\* A handler is called and awaits its first Logger.Log:
\* `await Logger.Log(...)` as the first statement of each of the four.
Enter(op, arg) ==
    /\ call = Idle
    /\ Weight(localStorage, clock) < MaxWeight
    /\ \E fate \in Fates :
          call' = InFlight(op, arg, "entry", fate, << >>, localStorage,
                           <<0,0,0,0,0,0>>, {}, None, {})
    /\ UNCHANGED << localStorage, clock, resolved >>

\* The first Logger.Log settles and the handler runs up to its next await
\* (or to its end): the sweep, the read, the change and the write.
Resume ==
    /\ call # Idle
    /\ call.stage = "entry"
    /\ call.fate = "inFlight"
    /\ \E reply \in Replies, draws \in RandomRuns \cup { <<0,0,0,0,0,0>> },
          faults \in SUBSET SitesOf(call.op), fate \in Fates :
        \E ack \in { Log(reply) } :
            IF ack.kind = "throw"
            THEN /\ draws = <<0,0,0,0,0,0>> /\ faults = {} /\ fate = "never"
                 /\ call' = InFlight(call.op, call.arg, "returned", fate,
                                     << [ reply |-> reply, result |-> ack ] >>,
                                     call.before, draws, faults, Some(ack), {})
                 /\ UNCHANGED << localStorage, clock, resolved >>
            ELSE
            \E e \in { Body(call.op, call.arg, localStorage, clock,
                            draws, faults) } :
                /\ BodyReaches(call.op, call.arg, localStorage, clock,
                               draws, faults)
                /\ IF ExitLogged(call.op, e.result) THEN TRUE
                   ELSE fate = "never"
                /\ call' = InFlight(call.op, call.arg,
                                    IF ExitLogged(call.op, e.result)
                                    THEN "exit" ELSE "returned",
                                    fate,
                                    << [ reply |-> reply, result |-> ack ] >>,
                                    call.before, draws, faults,
                                    Some(e.result), e.faulted)
                /\ localStorage' = e.store
                /\ UNCHANGED << clock, resolved >>

\* The last Logger.Log settles and the handler returns or throws.
Return(reply) ==
    /\ call # Idle
    /\ call.stage = "exit"
    /\ call.fate = "inFlight"
    /\ \E ack \in { Log(reply) } :
          call' = [ call EXCEPT
                      !.stage = "returned",
                      !.logs = Append(@, [ reply |-> reply, result |-> ack ]),
                      !.result = IF ack.kind = "throw" THEN Some(ack) ELSE @ ]
    /\ UNCHANGED << localStorage, clock, resolved >>

\* The caller takes the result.
Taken ==
    /\ call # Idle
    /\ call.stage = "returned"
    /\ call' = Idle
    /\ UNCHANGED << localStorage, clock, resolved >>

AsyncNext ==
    \/ \E request \in AsyncRequests : Enter("create", request)
    \/ \E shortcode \in AsyncProbes : Enter("resolve", shortcode)
    \/ Enter("list", None)
    \/ \E shortcode \in AsyncProbes : Enter("delete", shortcode)
    \/ Resume
    \/ \E reply \in Replies : Return(reply)
    \/ Taken

\* The event loop runs a continuation once the promise it awaits has
\* settled, and hands a settled result to the caller.
AsyncSpec ==
    /\ Init
    /\ [][AsyncNext]_vars
    /\ WF_vars(Resume)
    /\ WF_vars(\E reply \in Replies : Return(reply))
    /\ WF_vars(Taken)

(* ------------------- the collision loop, draw by draw ------------------ *)

\* The requests that take create to its generator: a valid URL and no
\* custom code (or the empty one).
LoopRequests ==
    { r \in Requests : isValidUrl(r.originalUrl) /\ ~HasCustomCode(r) }

\* A create on its way through the loop: mappings is the array read after
\* the sweep, shortcode the code generated last.
InLoop(arg, stage, mappings, shortcode, result) ==
    [ op |-> "create", arg |-> arg, stage |-> stage, mappings |-> mappings,
      shortcode |-> shortcode, result |-> result ]

\* shortenUrl up to its first generateShortcode call: the validation, the
\* sweep, the read, and `shortcode = this.generateShortcode()`.
LoopEnter(request, draws) ==
    /\ call = Idle
    /\ Weight(localStorage, clock) < MaxWeight
    /\ localStorage' = cleanExpiredMappings(localStorage, DateOf(clock))
    /\ call' = InLoop(request, "loop", getStoredMappings(localStorage'),
                      generateShortcode(draws), None)
    /\ UNCHANGED << clock, resolved >>

\* while (mappings.some(...)) { shortcode = this.generateShortcode(); }:
\* the test finds the code and the body draws another.
LoopAgain(draws) ==
    /\ call # Idle
    /\ call.stage = "loop"
    /\ CodeExists(call.mappings, call.shortcode)
    /\ call' = [ call EXCEPT !.shortcode = generateShortcode(draws) ]
    /\ UNCHANGED << localStorage, clock, resolved >>

\* The test does not find the code: the loop is left, the record is made,
\* pushed and saved, and the response returned.
LoopLeave ==
    /\ call # Idle
    /\ call.stage = "loop"
    /\ ~CodeExists(call.mappings, call.shortcode)
    /\ LET expiresAt == ExpiryDate(clock, ValidityOf(call.arg))
           createdAt == DateOf(clock)
           newMapping == NewMapping(call.shortcode, call.arg.originalUrl,
                                    expiresAt, createdAt)
       IN  /\ localStorage' = saveMappings(Append(call.mappings, newMapping))
           /\ call' = [ call EXCEPT
                          !.stage = "returned",
                          !.result = Some(Returned(
                              Response(call.shortcode, call.arg.originalUrl,
                                       expiresAt, createdAt))) ]
    /\ UNCHANGED << clock, resolved >>

\* A delete call between two creates, from its call to its result.
LoopDelete(shortcode) ==
    /\ call = Idle
    /\ localStorage' = deleteMappingByShortcodeOutcome(localStorage, clock,
                                                       shortcode).store
    /\ UNCHANGED << clock, call, resolved >>

LoopNext ==
    \/ \E request \in LoopRequests, draws \in RandomRuns :
          LoopEnter(request, draws)
    \/ \E draws \in RandomRuns : LoopAgain(draws)
    \/ LoopLeave
    \/ Taken
    \/ \E shortcode \in AsyncProbes : LoopDelete(shortcode)
    \/ \E step \in TickSteps : Tick(step)

\* Math.random is fair: a code that can be drawn again and again is drawn;
\* and the synchronous statements after the loop run.
LoopSpec ==
    /\ Init
    /\ [][LoopNext]_vars
    /\ \A draws \in RandomRuns : SF_vars(LoopAgain(draws))
    /\ WF_vars(LoopLeave)

(* --------------------------- overlapping calls ------------------------- *)

\* The calls that can be in flight together: two calls of one page, or one
\* call of each of two tabs.
Slots == { 1, 2 }

\* The calls made while another may be in flight.
FlightCalls ==
    { [ op |-> "create", arg |-> r ] :
        r \in { q \in AsyncRequests : q.customShortcode # Some(CodeShort) } }
    \cup { [ op |-> "resolve", arg |-> CodeAbc ],
           [ op |-> "list", arg |-> None ],
           [ op |-> "delete", arg |-> CodeAbc ] }

\* Mutant: the handler awaits between reading the array and saving it.
AwaitBeforeSaveYes(op) == TRUE

\* Whether a handler awaits between its read of the array and its
\* saveMappings: the awaits after the read (lines 100, 106, 156, 162, 188)
\* are all followed by a throw or a return, never by a write.
AwaitBeforeSave(op) == FALSE

\* Mutant: the handler saves the array as it is under the key now.
WrittenFromCurrent(mappings, current) == current

\* The array a handler changes and saves is the one it read.
WrittenFrom(mappings, current) == mappings

\* What a section of a handler leaves: the value under the key, the array
\* the handler holds, and its result (None while it has none).
Section(store, mappings, result) ==
    [ store |-> store, mappings |-> mappings, result |-> result ]

\* The handler of op from its first statement after `await Logger.Log` to
\* its read of the array: the validation, the sweep, getStoredMappings.
ReadSection(op, arg, store, t) ==
    IF op = "create" /\ ~isValidUrl(arg.originalUrl)
    THEN Section(store, << >>, Some(Thrown(ErrInvalidUrl)))
    ELSE IF op = "delete"
    THEN Section(store, getStoredMappings(store), None)
    ELSE LET swept == cleanExpiredMappings(store, DateOf(t))
         IN  Section(swept, getStoredMappings(swept), None)

\* The rest of shortenUrl, holding mappings.
shortenUrlWrite(request, store, mappings, t, draws) ==
    IF HasCustomCode(request)
       /\ ~isValidShortcode(request.customShortcode[1])
    THEN Section(store, mappings, Some(Thrown(ErrInvalidCode)))
    ELSE
    IF HasCustomCode(request)
       /\ CodeExists(mappings, request.customShortcode[1])
    THEN Section(store, mappings, Some(Thrown(ErrCodeTaken)))
    ELSE
    LET shortcode == IF HasCustomCode(request)
                     THEN request.customShortcode[1]
                     ELSE generateShortcode(draws)
        expiresAt == ExpiryDate(t, ValidityOf(request))
        createdAt == DateOf(t)
        pushed == Append(mappings,
                         NewMapping(shortcode, request.originalUrl,
                                    expiresAt, createdAt))
    IN  Section(saveMappings(pushed), pushed,
                Some(Returned(Response(shortcode, request.originalUrl,
                                       expiresAt, createdAt))))

\* The rest of resolveShortcode, holding mappings.
resolveShortcodeWrite(shortcode, store, mappings, t) ==
    LET i == FindIndex(mappings, shortcode)
    IN  IF i = 0 THEN Section(store, mappings, Some(Returned(None)))
        ELSE
        IF NewDate(mappings[i].expiresAt).time <= DateOf(t).time
        THEN Section(store, mappings, Some(Returned(None)))
        ELSE Section(saveMappings(Increment(mappings, i)),
                     Increment(mappings, i),
                     Some(Returned(Some(mappings[i].originalUrl))))

\* The rest of deleteMappingByShortcode, holding mappings.
deleteMappingByShortcodeWrite(shortcode, store, mappings) ==
    LET filteredMappings == FilterOut(mappings, shortcode)
    IN  IF Len(filteredMappings) = Len(mappings)
        THEN Section(store, mappings, Some(Returned(FALSE)))
        ELSE Section(saveMappings(filteredMappings), filteredMappings,
                     Some(Returned(TRUE)))

\* The handler of op from its read of the array to its result.
WriteSection(op, arg, store, held, t, draws) ==
    LET mappings == WrittenFrom(held, getStoredMappings(store))
    IN  CASE op = "create" -> shortenUrlWrite(arg, store, mappings, t, draws)
          [] op = "resolve" -> resolveShortcodeWrite(arg, store, mappings, t)
          [] op = "list" -> Section(store, mappings, Some(Returned(mappings)))
          [] op = "delete" ->
                deleteMappingByShortcodeWrite(arg, store, mappings)

\* The whole handler of op, run on store with nothing in between.
Whole(op, arg, store, t, draws) ==
    CASE op = "create" -> shortenUrlOutcome(store, t, arg, 0, 0, draws)
      [] op = "resolve" -> resolveShortcodeOutcome(store, t, arg, 0)
      [] op = "list" -> getAllMappingsOutcome(store, t)
      [] op = "delete" -> deleteMappingByShortcodeOutcome(store, t, arg)

\* The draws are those the loop of create ends with on mappings (all zero
\* when the generator is not called).
WriteReaches(op, arg, mappings, draws) ==
    IF op = "create" /\ isValidUrl(arg.originalUrl) /\ ~HasCustomCode(arg)
    THEN LoopExits(mappings, draws)
    ELSE draws = <<0,0,0,0,0,0>>

\* A slot with no call, and a call in flight: stage is "entry" until the
\* handler has read the array, "held" while it holds the array it read,
\* "returned" once it has its result; mappings is the array as it read it; serially is the result the same call
\* has when the handlers run one at a time in the order of their writes.
Free == [ stage |-> "free" ]

Flight(op, arg, stage, mappings, result, serially) ==
    [ op |-> op, arg |-> arg, stage |-> stage, mappings |-> mappings,
      result |-> result, serially |-> serially ]

\* The calls in flight, the store of the one-at-a-time run, and what the
\* calls in flight did so far, in order: << i, "read" >> when the call in
\* slot i read the array, << i, "rest" >> when it ran on to its result.
Flights == IF call = Idle THEN [ i \in Slots |-> Free ] ELSE call.flights
Serial == IF call = Idle THEN localStorage ELSE call.serial
Wrote == IF call = Idle THEN << >> ELSE call.wrote

Pack(flights, serial, wrote) ==
    IF \A i \in Slots : flights[i] = Free
    THEN Idle
    ELSE [ op |-> "flights", flights |-> flights, serial |-> serial,
           wrote |-> wrote ]

\* A handler is called while another call may be in flight, and awaits its
\* first Logger.Log.
Start(i, c) ==
    /\ Flights[i] = Free
    /\ Weight(localStorage, clock)
          + Cardinality({ j \in Slots : Flights[j] # Free }) < MaxWeight
    /\ call' = Pack([ Flights EXCEPT
                        ![i] = Flight(c.op, c.arg, "entry", << >>, None, None) ],
                    Serial, Wrote)
    /\ UNCHANGED << localStorage, clock, resolved >>

\* The call in slot i runs until it next gives way: from its read of the
\* array to its result when nothing can run in between (split false), to
\* the read and then from the read (split true) otherwise. The
\* one-at-a-time run is kept alongside when ghost is true.
Advance(i, split, ghost) ==
    /\ Flights[i] # Free
    /\ Flights[i].stage \in { "entry", "held" }
    /\ \E draws \in RandomRuns \cup { <<0,0,0,0,0,0>> } :
        LET f == Flights[i]
            rs == IF f.stage = "entry"
                  THEN ReadSection(f.op, f.arg, localStorage, clock)
                  ELSE Section(localStorage, f.mappings, None)
            ws == IF rs.result # None THEN rs
                  ELSE WriteSection(f.op, f.arg, rs.store, rs.mappings,
                                    clock, draws)
            one == Whole(f.op, f.arg, Serial, clock, draws)
        IN  IF f.stage = "entry" /\ split /\ rs.result = None
            THEN /\ draws = <<0,0,0,0,0,0>>
                 /\ localStorage' = rs.store
                 /\ call' = Pack([ Flights EXCEPT
                                     ![i] = Flight(f.op, f.arg, "held",
                                                   rs.mappings, None, None) ],
                                 IF ghost THEN Serial ELSE rs.store,
                                 Append(Wrote, << i, "read" >>))
            ELSE /\ WriteReaches(f.op, f.arg,
                                 WrittenFrom(rs.mappings,
                                             getStoredMappings(rs.store)),
                                 draws)
                 /\ localStorage' = ws.store
                 /\ call' = Pack([ Flights EXCEPT
                                     ![i] = Flight(f.op, f.arg, "returned",
                                                   rs.mappings, ws.result,
                                                   IF ghost
                                                   THEN Some(one.result)
                                                   ELSE None) ],
                                 IF ghost THEN one.store ELSE ws.store,
                                 IF f.stage = "entry"
                                 THEN Wrote \o << << i, "read" >>,
                                                  << i, "rest" >> >>
                                 ELSE Append(Wrote, << i, "rest" >>))
    /\ UNCHANGED << clock, resolved >>

\* The caller takes the result of the call in slot i.
Finish(i) ==
    /\ Flights[i] # Free
    /\ Flights[i].stage = "returned"
    /\ call' = Pack([ Flights EXCEPT ![i] = Free ], Serial,
                    SelectSeq(Wrote, LAMBDA e : e[1] # i))
    /\ UNCHANGED << localStorage, clock, resolved >>

\* Two calls of one page: a call gives way only where its handler awaits.
InterleaveNext ==
    \/ \E i \in Slots, c \in FlightCalls : Start(i, c)
    \/ \E i \in Slots :
          /\ Flights[i] # Free
          /\ Advance(i, AwaitBeforeSave(Flights[i].op), TRUE)
    \/ \E i \in Slots : Finish(i)

InterleaveSpec == Init /\ [][InterleaveNext]_vars

\* One call in each of two tabs: the tabs run at the same time, so the
\* other tab can run between any two storage accesses of a handler.
TabsNext ==
    \/ \E i \in Slots, c \in FlightCalls : Start(i, c)
    \/ \E i \in Slots : Advance(i, TRUE, FALSE)
    \/ \E i \in Slots : Finish(i)

TabsSpec == Init /\ [][TabsNext]_vars

(* --------------------------- RedirectHandler --------------------------- *)

\* The route parameter: absent, or a shortcode.
Params == { None } \cup { Some(c) : c \in AsyncProbes }

\* The requests that fill the store before the page is opened.
RedirectRequests ==
    { r \in AsyncRequests :
        isValidUrl(r.originalUrl) /\ r.customShortcode # Some(CodeShort) }

\* The awaits of Logger.Log the handler can be suspended at, named by
\* their line in RedirectHandler.tsx; "entry" and "exit" are the awaits of
\* resolveShortcode, which the handler awaits at line 28.
LogPoints == { "log21", "log26", "entry", "exit", "log33", "log38", "log49" }

\* The mounted component: its route parameter, its status, where
\* handleRedirect stands (pc) and whether the log it awaits is ever
\* answered (fate), the result resolveShortcode has or had, the URL of the
\* timer of line 41, the URL window.location.href was set to, and the
\* number of calls of resolveShortcode.
Page(param, status, pc, fate, resolution, timer, navigated, resolves) ==
    [ op |-> "redirect", param |-> param, status |-> status, pc |-> pc,
      fate |-> fate, resolution |-> resolution, timer |-> timer,
      navigated |-> navigated, resolves |-> resolves ]

\* useState('loading'): the component is mounted on the route.
Mount(param) ==
    /\ call = Idle
    /\ Weight(localStorage, clock) < MaxWeight
    /\ call' = Page(param, "loading", "start", "inFlight", None, None, None, 0)
    /\ UNCHANGED << localStorage, clock, resolved >>

\* catch (error) { setStatus('error'); ...; await Logger.Log(...) }
Catch(page) == [ page EXCEPT !.status = "error", !.pc = "log49" ]

\* The effect calls handleRedirect, which runs to its first await.
Begin ==
    /\ call # Idle
    /\ call.op = "redirect"
    /\ call.pc = "start"
    /\ \E fate \in Fates :
          call' = IF call.param = None
                  THEN [ call EXCEPT !.status = "error", !.pc = "log21",
                                     !.fate = fate ]
                  ELSE [ call EXCEPT !.pc = "log26", !.fate = fate ]
    /\ UNCHANGED << localStorage, clock, resolved >>

\* handleRedirect from the await at page.pc, which settled with ack, to its
\* next await, with the key holding store and the clock at t.
Handle(page, ack, store, t) ==
    LET same(q) == [ page |-> q, store |-> store ]
        o == resolveShortcodeOutcome(store, t, page.param[1], 0)
        originalUrl == page.resolution[1].value
    IN  CASE page.pc = "log21" -> same([ page EXCEPT !.pc = "done" ])
          [] page.pc = "log49" -> same([ page EXCEPT !.pc = "done" ])
          [] ack.kind = "throw" /\ page.pc \notin { "log21", "log49" } ->
                same(Catch([ page EXCEPT
                               !.resolution =
                                   IF page.pc \in { "entry", "exit" }
                                   THEN Some(ack) ELSE @ ]))
          [] page.pc = "log26" ->
                same([ page EXCEPT !.pc = "entry", !.resolves = @ + 1 ])
          [] page.pc = "entry" ->
                [ page |-> [ page EXCEPT !.pc = "exit",
                                         !.resolution = Some(o.result) ],
                  store |-> o.store ]
          [] page.pc = "exit" ->
                IF originalUrl = None
                THEN same([ page EXCEPT !.status = "expired", !.pc = "log33" ])
                ELSE same([ page EXCEPT !.status = "redirecting",
                                        !.pc = "log38" ])
          [] page.pc = "log33" -> same([ page EXCEPT !.pc = "done" ])
          [] page.pc = "log38" ->
                same([ page EXCEPT !.pc = "timer", !.timer = originalUrl ])

\* The log the handler awaits is answered with reply, and the handler runs
\* to its next await or to its end.
Answer(reply) ==
    /\ call # Idle
    /\ call.op = "redirect"
    /\ call.pc \in LogPoints
    /\ call.fate = "inFlight"
    /\ \E fate \in Fates :
        \E h \in { Handle(call, Log(reply), localStorage, clock) } :
            /\ h.page.pc \notin LogPoints => fate = "inFlight"
            /\ call' = [ h.page EXCEPT !.fate = fate ]
            /\ localStorage' = h.store
            /\ resolved' =
                  IF call.pc = "entry"
                  THEN Count(h.store, None,
                             Hit("resolve", call.param[1],
                                 h.page.resolution[1]))
                  ELSE resolved
    /\ UNCHANGED clock

\* The timer of line 41 fires: window.location.href = originalUrl.
Fire ==
    /\ call # Idle
    /\ call.op = "redirect"
    /\ call.pc = "timer"
    /\ call' = [ call EXCEPT !.pc = "done", !.navigated = call.timer ]
    /\ UNCHANGED << localStorage, clock, resolved >>

\* The page is left: by goHome, or by the navigation.
Unmount ==
    /\ call # Idle
    /\ call.op = "redirect"
    /\ call.pc = "done"
    /\ call' = Idle
    /\ UNCHANGED << localStorage, clock, resolved >>

RedirectNext ==
    \/ \E request \in RedirectRequests : shortenUrl(request)
    \/ (call.op = "create" /\ Settle)
    \/ \E step \in TickSteps : Tick(step)
    \/ \E param \in Params : Mount(param)
    \/ Begin
    \/ \E reply \in Replies : Answer(reply)
    \/ Fire
    \/ Unmount

RedirectSpec ==
    /\ Init
    /\ [][RedirectNext]_vars
    /\ WF_vars(Begin)
    /\ WF_vars(\E reply \in Replies : Answer(reply))
    /\ WF_vars(Fire)

(* ------------------------------- claims ------------------------------- *)

\* The records under the key now, and before the awaited call ran.
Stored == getStoredMappings(localStorage)
Before == getStoredMappings(call.before)

\* The moments at which a following call may start: at once, a step later,
\* or when the default validity has passed.
Later == { 0, ShortStep, LongStep }

\* The format of the specification: ^[A-Za-z0-9]{3,10}$
MatchesCodeFormat(c) ==
    /\ Len(c) \in 3 .. 10
    /\ \A i \in 1 .. Len(c) : c[i] \in Lower \cup Upper \cup Digit

\* The awaited call is a create that returned a mapping.
Created == call.op = "create" /\ call.result.kind = "return"

\* The record with shortcode c among mappings, as a set (empty if none).
RecordsOf(mappings, c) ==
    { mappings[i] : i \in { j \in 1 .. Len(mappings) : mappings[j].shortcode = c } }

\* Some record of mappings has shortcode c.
HasCode(mappings, c) == RecordsOf(mappings, c) # {}

\* mappings without its k-th element.
WithoutIndex(mappings, k) ==
    SubSeq(mappings, 1, k - 1) \o SubSeq(mappings, k + 1, Len(mappings))

\* C1: after a create of a valid URL u with no custom code and validity
\* v > 0 returned code c, a resolve of c that starts at once or later and
\* checks the expiry before expiresAt returns exactly u.
C1_ResolveAfterCreate ==
    ( /\ Created
      /\ call.arg.customShortcode = None
      /\ call.arg.validityMinutes # None
      /\ call.arg.validityMinutes[1] > 0 )
    => \A w \in Later, d \in Drift :
         \A o \in { resolveShortcodeOutcome(localStorage, clock + w,
                                           call.result.value.shortcode, d) } :
            clock + w + d < call.result.value.expiresAt.time
            => o.result = Returned(Some(call.arg.originalUrl))

\* A resolve of a generated code returned the URL of a record that was
\* created in the millisecond the resolve started and never resolved before.
C1_Witness ==
    /\ call.op = "resolve"
    /\ call.arg = generateShortcode(<<0,0,0,0,0,0>>)
    /\ call.result = Returned(Some(UrlExample))
    /\ \E r \in RecordsOf(Before, call.arg) :
          /\ r.accessCount = 0
          /\ NewDate(r.createdAt).time = call.reads[1]
          /\ NewDate(r.expiresAt).time = call.reads[1] + MsPerMinute

\* C2: a mapping created with validityMinutes = 0 is expired at once: a
\* resolve of its code returns null and a list after it does not hold it.
C2_ZeroValidityExpired ==
    ( Created /\ call.arg.validityMinutes = Some(0) )
    => \A d \in Drift :
         \A o \in { resolveShortcodeOutcome(localStorage, clock,
                                           call.result.value.shortcode, d) } :
            /\ o.result = Returned(None)
            /\ ~HasCode(getAllMappingsOutcome(o.store, o.clock).result.value,
                           call.result.value.shortcode)

\* C3: a create of a valid URL with a custom code c of the format succeeds
\* with shortcode c when no record live at the sweep holds c (an expired
\* one may), and fails with the code-taken error when a live record holds c.
C3_CustomCode ==
    ( /\ call.op = "create"
      /\ isValidUrl(call.arg.originalUrl)
      /\ call.arg.customShortcode # None
      /\ MatchesCodeFormat(call.arg.customShortcode[1]) )
    => LET c == call.arg.customShortcode[1]
           held == \E r \in RecordsOf(Before, c) :
                      NewDate(r.expiresAt).time > call.reads[1]
       IN  IF held
           THEN call.result = Thrown(ErrCodeTaken)
           ELSE /\ call.result.kind = "return"
                /\ call.result.value.shortcode = c
                /\ HasCode(Stored, c)

\* A create with a custom code succeeded while the store still held an
\* expired record with that code.
C3_Witness ==
    /\ Created
    /\ call.arg.customShortcode = Some(CodeAbc)
    /\ call.result.value.shortcode = CodeAbc
    /\ RecordsOf(Before, CodeAbc) # {}

\* C4: a create of a valid URL with a custom code that does not match the
\* format (the empty string included) fails with the invalid-code-format
\* error and adds no record.
C4_BadCodeRejected ==
    ( /\ call.op = "create"
      /\ isValidUrl(call.arg.originalUrl)
      /\ call.arg.customShortcode # None
      /\ ~MatchesCodeFormat(call.arg.customShortcode[1]) )
    => /\ call.result = Thrown(ErrInvalidCode)
       /\ \A i \in 1 .. Len(Stored) :
             \E j \in 1 .. Len(Before) : Stored[i] = Before[j]

\* C5: a create of a string that does not parse as an absolute URL fails
\* with the invalid-URL error, writes nothing and leaves the value under
\* the key as it was, expired records included.
C5_BadUrlRejected ==
    ( call.op = "create" /\ ~isValidUrl(call.arg.originalUrl) )
    => /\ call.result = Thrown(ErrInvalidUrl)
       /\ localStorage = call.before
       /\ call.writes = 0

\* A create of a malformed URL was rejected while the store held a record
\* that had expired.
C5_Witness ==
    /\ call.op = "create"
    /\ call.arg.originalUrl = UrlNoScheme
    /\ call.result = Thrown(ErrInvalidUrl)
    /\ \E i \in 1 .. Len(Stored) : NewDate(Stored[i].expiresAt).time <= clock

\* C6: a resolve of a code whose record has expiresAt at or before the
\* call's latest clock read returns null, leaves no record of the code
\* with a changed accessCount, and a list after it does not hold the code.
C6_ExpiredNeverResolved ==
    ( /\ call.op = "resolve"
      /\ \E r \in RecordsOf(Before, call.arg) :
            NewDate(r.expiresAt).time <= call.reads[Len(call.reads)] )
    => /\ call.result = Returned(None)
       /\ RecordsOf(Stored, call.arg) \subseteq RecordsOf(Before, call.arg)
       /\ \A w \in Later :
             ~HasCode(getAllMappingsOutcome(localStorage, clock + w)
                           .result.value, call.arg)

\* A resolve found its record live at the sweep and expired at the check:
\* it returned null and the record is still stored, unchanged.
C6_Witness ==
    /\ call.op = "resolve"
    /\ call.result = Returned(None)
    /\ Len(call.reads) = 2
    /\ RecordsOf(Stored, call.arg) # {}
    /\ RecordsOf(Stored, call.arg) = RecordsOf(Before, call.arg)

\* C7: a delete of a code some stored record has, live or expired, returns
\* true and removes exactly that record: the others stay, in their order,
\* and a list after it does not hold the code.
C7_DeleteRemoves ==
    ( call.op = "delete" /\ HasCode(Before, call.arg) )
    => /\ call.result = Returned(TRUE)
       /\ ~HasCode(Stored, call.arg)
       /\ \E k \in 1 .. Len(Before) :
             /\ Before[k].shortcode = call.arg
             /\ Stored = WithoutIndex(Before, k)
       /\ \A w \in Later :
             ~HasCode(getAllMappingsOutcome(localStorage, clock + w)
                           .result.value, call.arg)

\* A delete removed an expired record from among three.
C7_Witness ==
    /\ call.op = "delete"
    /\ call.result = Returned(TRUE)
    /\ Len(Before) = 3
    /\ \E r \in RecordsOf(Before, call.arg) :
          NewDate(r.expiresAt).time <= clock

\* C8: a delete of a code no stored record has returns false, writes
\* nothing and leaves the value under the key as it was.
C8_DeleteMissNoChange ==
    ( call.op = "delete" /\ ~HasCode(Before, call.arg) )
    => /\ call.result = Returned(FALSE)
       /\ localStorage = call.before
       /\ call.writes = 0

\* A delete missed while the store held an expired record, which stayed.
C8_Witness ==
    /\ call.op = "delete"
    /\ call.result = Returned(FALSE)
    /\ \E i \in 1 .. Len(Stored) : NewDate(Stored[i].expiresAt).time <= clock

\* C9: a record is created with accessCount 0, and the accessCount of every
\* stored record is the number of resolves that returned its URL since its
\* creation.
C9_AccessCount ==
    /\ Created =>
          \A r \in RecordsOf(Stored, call.result.value.shortcode) :
             r.accessCount = 0
    /\ \A i \in 1 .. Len(Stored) :
          /\ Stored[i].shortcode \in DOMAIN resolved
          /\ Stored[i].accessCount = resolved[Stored[i].shortcode]

\* A second resolve of a record returned its URL, beside another record.
C9_Witness ==
    /\ call.op = "resolve"
    /\ Len(Stored) = 2
    /\ \E r \in RecordsOf(Stored, call.arg) : r.accessCount = 2

\* C10: every record create persists has expiresAt = createdAt +
\* validityMinutes minutes, validityMinutes being 30 when omitted.
C10_ExpiryExact ==
    Created =>
       LET v == IF call.arg.validityMinutes = None
                THEN DefaultValidityMinutes
                ELSE call.arg.validityMinutes[1]
       IN  \A r \in RecordsOf(Stored, call.result.value.shortcode) :
              NewDate(r.expiresAt).time
                = NewDate(r.createdAt).time + v * MsPerMinute

\* C11: no two records under the key have the same shortcode.
C11_UniqueCodes ==
    \A i \in 1 .. Len(Stored), j \in 1 .. Len(Stored) :
        Stored[i].shortcode = Stored[j].shortcode => i = j

\* A create without a custom code returned while a live record held the
\* code of the all-zero draws: the loop went on to another code.
C11_Witness ==
    /\ Created
    /\ call.arg.customShortcode = None
    /\ HasCode(Stored, generateShortcode(<<0,0,0,0,0,0>>))
    /\ HasCode(Before, generateShortcode(<<0,0,0,0,0,0>>))
    /\ call.result.value.shortcode = generateShortcode(<<0,0,0,0,0,61>>)

\* The step creates a record with shortcode c.
MadeNext(c) ==
    /\ call'.op = "create"
    /\ call'.result.kind = "return"
    /\ call'.result.value.shortcode = c

\* C12: in every step, a record that stays under the key (its code is
\* still there and the step did not create that code anew) keeps its
\* shortcode, originalUrl, createdAt and expiresAt, and its accessCount
\* does not decrease.
C12_Immutable ==
    [][ \A i \in 1 .. Len(Stored) : \A j \in 1 .. Len(Stored') :
          ( /\ Stored'[j].shortcode = Stored[i].shortcode
            /\ ~MadeNext(Stored[i].shortcode) )
          => /\ Stored'[j].originalUrl = Stored[i].originalUrl
             /\ Stored'[j].createdAt = Stored[i].createdAt
             /\ Stored'[j].expiresAt = Stored[i].expiresAt
             /\ Stored'[j].accessCount >= Stored[i].accessCount ]_vars

\* A resolve whose sweep dropped another record returned the URL of a
\* record for the second time.
C12_Witness ==
    /\ call.op = "resolve"
    /\ call.writes = 2
    /\ \E r \in RecordsOf(Stored, call.arg) : r.accessCount = 2

\* C13: a list that starts when a list has just returned, the clock not
\* advanced, returns the same records in the same order, writes nothing and
\* leaves the value under the key as it is.
C13_ListTwice ==
    call.op = "list"
    => \A o \in { getAllMappingsOutcome(localStorage, clock) } :
          /\ o.result = call.result
          /\ o.store = localStorage
          /\ o.writes = 0

\* A list dropped an expired record and returned the one that was left.
C13_Witness ==
    /\ call.op = "list"
    /\ call.writes = 1
    /\ Len(Before) = 2
    /\ Len(call.result.value) = 1

\* The call in flight has handed its result to the caller.
Ended == call # Idle /\ call.stage = "returned"

\* The reply is a 2xx response whose body is JSON.
Acknowledged(reply) ==
    /\ reply.network = "ok"
    /\ reply.status >= 200
    /\ reply.status <= 299
    /\ reply.body # None

\* C14: whatever the replies to its Logger.Log calls were, a call that
\* ended returned or threw what, and left under the key what, its handler
\* makes of the store, the clock, the arguments, the random draws and the
\* storage faults alone.
C14_LogsDoNotMatter ==
    Ended
    => \A e \in { Body(call.op, call.arg, call.before, clock,
                       call.draws, call.faults) } :
          /\ call.result = Some(e.result)
          /\ localStorage = e.store

\* A create returned its mapping after both of its Logger.Log calls had
\* returned null, the first for a network error, the last for a 500.
C14_Witness ==
    /\ Ended
    /\ call.op = "create"
    /\ call.result[1].kind = "return"
    /\ Len(Stored) = Len(Before) + 1
    /\ Len(call.logs) = 2
    /\ call.logs[1].reply.network = "error"
    /\ call.logs[1].result = Returned(None)
    /\ call.logs[2].reply.network = "ok"
    /\ call.logs[2].reply.status = 500
    /\ call.logs[2].result = Returned(None)

\* C15: a call of a handler leads to the caller having its result, also
\* when a logging request of the call is never answered.
C15_NonBlocking ==
    (call # Idle) ~> Ended

\* C16: Logger.Log never throws; it returns the parsed body for a 2xx
\* response with a JSON body, and null for a network error, another status
\* or a body that does not parse.
C16_LogNeverRaises ==
    call # Idle
    => \A k \in 1 .. Len(call.logs) :
          /\ call.logs[k].result.kind = "return"
          /\ IF Acknowledged(call.logs[k].reply)
             THEN call.logs[k].result.value = Some(call.logs[k].reply.body[1])
             ELSE call.logs[k].result.value = None

\* Of the two Logger.Log calls of a call the first returned null for a 500
\* with a JSON body, the last for a 200 whose body does not parse.
C16_Witness ==
    /\ Ended
    /\ Len(call.logs) = 2
    /\ call.logs[1].reply.network = "ok"
    /\ call.logs[1].reply.status = 500
    /\ call.logs[1].reply.body # None
    /\ call.logs[1].result = Returned(None)
    /\ call.logs[2].reply.network = "ok"
    /\ call.logs[2].reply.status = 200
    /\ call.logs[2].reply.body = None
    /\ call.logs[2].result = Returned(None)

\* C17: a call during which a storage access threw does not throw for it
\* (it throws only one of create's own three errors), and a call whose read
\* threw goes on as with an empty collection: list returns no record,
\* resolve returns null, delete returns false, and create returns its
\* mapping and writes it as the only record.
C17_StorageFaultsCaught ==
    ( Ended /\ call.faulted # {} )
    => /\ call.result[1].kind = "throw" =>
             call.result[1].message
                \in { ErrInvalidUrl, ErrInvalidCode, ErrCodeTaken }
       /\ "read" \in call.faulted =>
             CASE call.op = "list" -> call.result[1] = Returned(<< >>)
               [] call.op = "resolve" -> call.result[1] = Returned(None)
               [] call.op = "delete" -> call.result[1] = Returned(FALSE)
               [] call.op = "create" ->
                     \/ call.result[1] = Thrown(ErrInvalidCode)
                     \/ /\ call.result[1].kind = "return"
                        /\ "write" \notin call.faulted =>
                              /\ Len(Stored) = 1
                              /\ Stored[1].shortcode
                                    = call.result[1].value.shortcode

\* The read of a create threw while the key held two records, and the
\* create wrote its record as the only one.
C17_Witness ==
    /\ Ended
    /\ call.op = "create"
    /\ call.faulted = { "read" }
    /\ Len(Before) = 2
    /\ Len(Stored) = 1
    /\ call.result[1].kind = "return"

\* C18: a call whose own write threw does not report the change: create
\* does not return a mapping, resolve does not return a URL and delete does
\* not return true.
C18_FailedWriteDegrades ==
    ( Ended /\ "write" \in call.faulted )
    => CASE call.op = "create" -> call.result[1].kind # "return"
         [] call.op = "resolve" -> call.result[1] = Returned(None)
         [] call.op = "delete" -> call.result[1] # Returned(TRUE)
         [] OTHER -> TRUE

\* The clock when the awaited call started.
Started == IF call.reads = << >> THEN clock ELSE call.reads[1]

Ids(mappings) ==
    [ i \in 1 .. Len(mappings) |->
        << mappings[i].shortcode, mappings[i].createdAt >> ]

\* a is b with some elements left out.
RECURSIVE IsSubsequence(_, _)
IsSubsequence(a, b) ==
    IF a = << >> THEN TRUE
    ELSE IF b = << >> THEN FALSE
    ELSE IF Head(a) = Head(b) THEN IsSubsequence(Tail(a), Tail(b))
    ELSE IsSubsequence(a, Tail(b))

\* C20: every call leaves the records it keeps in the order they had, a
\* create puts its record last, and list returns the records in the order
\* under the key: the order of the records is the order of their creation.
C20_InsertionOrder ==
    call # Idle
    => /\ IsSubsequence(Ids(IF Created
                            THEN SubSeq(Stored, 1, Len(Stored) - 1)
                            ELSE Stored),
                        Ids(Before))
       /\ Created =>
             Stored[Len(Stored)].shortcode = call.result.value.shortcode
       /\ call.op = "list" => call.result.value = Stored

\* A delete removed the middle one of three records.
C20_Witness ==
    /\ call.op = "delete"
    /\ Len(Before) = 3
    /\ Before[2].shortcode = call.arg
    /\ Len(Stored) = 2

\* C21: the code a create without a custom code returns has 6 characters
\* of the 62-character alphabet and is the shortcode of no record that was
\* under the key and live at the sweep of the call.
C21_GeneratedCode ==
    ( Created /\ call.arg.customShortcode = None )
    => LET c == call.result.value.shortcode
       IN  /\ Len(c) = 6
           /\ \A i \in 1 .. Len(c) : c[i] \in Lower \cup Upper \cup Digit
           /\ Cardinality(Lower \cup Upper \cup Digit) = 62
           /\ \A r \in RecordsOf(Before, c) :
                 NewDate(r.expiresAt).time <= call.reads[1]

\* A create without a custom code returned the code of a record that its
\* sweep had just dropped.
C21_Witness ==
    /\ Created
    /\ call.arg.customShortcode = None
    /\ call.result.value.shortcode = generateShortcode(<<0,0,0,0,0,0>>)
    /\ HasCode(Before, call.result.value.shortcode)
    /\ call.writes = 2

\* C23: a create of a valid URL with no custom code and validityMinutes < 0
\* succeeds and persists a record whose expiresAt is before its createdAt;
\* no resolve of its code, at once or later, returns its URL, and the sweep
\* of the next list removes it.
C23_NegativeValidity ==
    ( /\ call.op = "create"
      /\ isValidUrl(call.arg.originalUrl)
      /\ call.arg.customShortcode = None
      /\ call.arg.validityMinutes # None
      /\ call.arg.validityMinutes[1] < 0 )
    => /\ call.result.kind = "return"
       /\ \E r \in RecordsOf(Stored, call.result.value.shortcode) :
             NewDate(r.expiresAt).time < NewDate(r.createdAt).time
       /\ \A w \in Later, d \in Drift :
             /\ resolveShortcodeOutcome(localStorage, clock + w,
                                        call.result.value.shortcode, d).result
                   = Returned(None)
             /\ ~HasCode(getStoredMappings(
                            getAllMappingsOutcome(localStorage, clock + w).store),
                         call.result.value.shortcode)

\* A create with validityMinutes = -1 returned its mapping beside a live
\* record.
C23_Witness ==
    /\ Created
    /\ call.arg.validityMinutes = Some(0 - 1)
    /\ Len(Stored) = 2
    /\ NewDate(Stored[1].expiresAt).time > clock
    /\ NewDate(Stored[2].expiresAt).time < NewDate(Stored[2].createdAt).time

\* A create is in its collision loop.
Looping == call # Idle /\ call.stage = "loop"

\* Every code the generator can give is the shortcode of a record of the
\* array the loop compares with.
AllHeld ==
    \A draws \in RandomRuns :
        \E i \in 1 .. Len(call.mappings) :
            /\ call.mappings[i].shortcode[CodeLength] = chars[draws[CodeLength] + 1]
            /\ \A k \in 1 .. CodeLength - 1 :
                  call.mappings[i].shortcode[k] = chars[draws[k] + 1]

\* C22: while a code of the generator's code space is held by no record of
\* the array, the loop is left (the draws being fair); while every code is
\* held, the loop is not left.
C22_LoopTermination ==
    /\ (Looping /\ ~AllHeld) ~> ~Looping
    /\ [][ (Looping /\ AllHeld) => Looping' ]_vars

\* A create is in its loop with every code of the code space held.
C22_Witness ==
    /\ Looping
    /\ AllHeld
    /\ Len(call.mappings) = 2

\* The call in slot i is a create that returned its response.
CreatedIn(i) ==
    /\ Flights[i] # Free
    /\ Flights[i].stage = "returned"
    /\ Flights[i].op = "create"
    /\ Flights[i].result[1].kind = "return"

\* The shortcode the create in slot i returned.
CodeOf(i) == Flights[i].result[1].value.shortcode

\* C24: with two calls of one page in flight, no update is lost: the value
\* under the key and every result are those of the handlers run whole, one
\* at a time, in the order in which they ran; in particular, the step in
\* which a create returns keeps under the key the unexpired record of the
\* other create whose result is not yet taken.
C24_NoLostUpdate ==
    /\ [] ( /\ localStorage = Serial
            /\ \A i \in Slots :
                  (Flights[i] # Free /\ Flights[i].stage = "returned")
                  => Flights[i].result = Flights[i].serially )
    /\ [][ \A i \in Slots : \A j \in Slots \ { i } :
              ( /\ CreatedIn(i)
                /\ ValidityOf(Flights[i].arg) > 0
                /\ HasCode(Stored, CodeOf(i))
                /\ ~CreatedIn(j)
                /\ CreatedIn(j)' )
              => HasCode(Stored', CodeOf(i)) ]_vars

\* Both calls were in flight together, both are creates that returned, and
\* both records are under the key.
C24_Witness ==
    /\ \A i \in Slots : CreatedIn(i) /\ ValidityOf(Flights[i].arg) > 0
    /\ Wrote = << << 2, "read" >>, << 2, "rest" >>,
                 << 1, "read" >>, << 1, "rest" >> >>
    /\ Len(Stored) = 2
    /\ HasCode(Stored, CodeOf(1))
    /\ HasCode(Stored, CodeOf(2))

\* The call in slot j read the array, then the call in slot i ran from
\* its read to its result, then the call in slot j ran on to its result.
ReadBeforeWrite(i, j) ==
    Wrote = << << j, "read" >>, << i, "read" >>, << i, "rest" >>,
               << j, "rest" >> >>

\* The array the call in slot i read.
ReadBy(i) == Flights[i].mappings

\* The access count under the key of code c in mappings (as a set).
AccessOf(mappings, c) == { r.accessCount : r \in RecordsOf(mappings, c) }

Mounted == call.op = "redirect"

\* handleRedirect has run to its end.
Handled == Mounted /\ call.pc = "done"

\* What the status says about the run of handleRedirect so far.
RedirectOutcomes ==
    Mounted =>
    /\ call.pc = "start" => call.status = "loading"
    /\ call.status = "redirecting"
          => /\ call.resolution # None
             /\ call.resolution[1].kind = "return"
             /\ call.resolution[1].value # None
             /\ call.timer \in { None, call.resolution[1].value }
             /\ call.navigated \in { None, call.resolution[1].value }
    /\ call.status = "expired"
          => call.resolution = Some(Returned(None))
    /\ call.status = "error"
          => \/ call.param = None /\ call.resolves = 0
             \/ call.resolution # None /\ call.resolution[1].kind = "throw"
    /\ call.status # "redirecting"
          => call.timer = None /\ call.navigated = None
    /\ Handled => call.status \in { "redirecting", "expired", "error" }
    /\ (Handled /\ call.status = "redirecting")
          => call.navigated = call.resolution[1].value

\* C26: the status of RedirectHandler starts at 'loading' and ends as
\* 'redirecting' (with the navigation to the URL resolve returned, and only
\* when it returned one), as 'expired' (resolve returned null) or as 'error'
\* (no shortcode, resolve never called; or resolve threw); once it left
\* 'loading' it stays, and nothing navigates after 'expired' or 'error'.
C26_StatusEnds ==
    /\ []RedirectOutcomes
    /\ [][ (Mounted /\ Mounted' /\ call.status # "loading")
             => call'.status = call.status ]_vars
    /\ (Mounted /\ call.status = "loading")
          ~> (Mounted /\ call.status # "loading")
    /\ (Mounted /\ call.status = "redirecting")
          ~> (Mounted /\ call.navigated # None)

====
